---- MODULE Spec2Model ----
(***************************************************************************)
(* Model of the mining pool service (src/src/main.rs): the in-memory       *)
(* report store guarded by one mutex, the POST /report handler             *)
(* (post_report) and the GET /stats handler (get_stats).                   *)
(*                                                                         *)
(* Numbers.  hashrate is an f64 in the code.  It is modelled as an exact   *)
(* rational, an integer count of 1/HashrateScale units, and the averages   *)
(* that the handler rounds to one decimal place are integers counting      *)
(* tenths.  The hashrates and temperatures that one pool receives below    *)
(* (us-east: 10.0, 20.0, 30.3; eu-west: 0, 0.25) are values for which the  *)
(* f64 evaluation of (sum / count * 10.0).round() / 10.0 gives the same    *)
(* tenths as the exact evaluation, for every sequence of up to five        *)
(* reports, half-way cases included.                                       *)
(***************************************************************************)
EXTENDS Integers, Sequences, FiniteSets, Bags, TLC

(* ------------------------------------------------------------------ *)
(* Bounds                                                               *)
(* ------------------------------------------------------------------ *)
NProcs == 2            \* concurrent request tasks in Spec
MaxReports == 2        \* reports accepted in Spec
MaxStatsReports == 4   \* reports accepted in SpecStats
MaxValReports == 2     \* reports accepted in SpecValidate

(* ------------------------------------------------------------------ *)
(* Program constants                                                    *)
(* ------------------------------------------------------------------ *)
WINDOW == 300          \* let five_minutes_ago = now - 300
HashrateScale == 100   \* model units per 1.0 of hashrate

Procs == 1..NProcs

Report(w, p, h, t, ts) ==
    [worker_id |-> w, pool |-> p, hashrate |-> h, temperature |-> t, timestamp |-> ts]

NoReport == Report("", "", 0, 0, 0)

(* Inputs of SpecValidate: every combination of valid and invalid fields. *)
ValReports ==
    { Report(w, p, h, t, ts) :
        w \in {"", "w1"}, p \in {"", "east"}, h \in {-25, 0, 5050},
        t \in {-5, 68}, ts \in {-1, 0, 1} }

(* Inputs of SpecStats: valid reports.  e1..e3 are three workers of one   *)
(* pool at timestamp 301; the fourth is worker w1 again in the same pool  *)
(* at timestamp 1; the fifth is worker w1 in a second pool, timestamped   *)
(* after every reading of the clock; the sixth has hashrate 0.25, a       *)
(* half-way case of the rounding.  With now = 301 the timestamps 1, 2,    *)
(* 301 and 302 are now - 300, now - 299, now and now + 1.                 *)
StatsReports ==
    { Report("w1", "us-east", 1000, 60, 301),
      Report("w2", "us-east", 2000, 70, 301),
      Report("w3", "us-east", 3030, 80, 301),
      Report("w1", "us-east", 1000, -1, 1),
      Report("w1", "eu-west", 0, -1, 302),
      Report("w2", "eu-west", 25, 0, 2) }

(* Inputs of Spec: two valid reports and one that validation rejects.    *)
ConcReports ==
    { Report("w1", "us-east", 1000, 60, 301),
      Report("w2", "eu-west", 2000, 70, 1),
      Report("w1", "", 1000, 60, 301) }

(* Readings of Utc::now().timestamp() *)
Nows == {300, 301}

VARIABLES
    reports,     \* the Vec<WorkerReport> inside the mutex
    poisoned,    \* the mutex's poison flag
    lock,        \* the task that holds the mutex guard, 0 when free
    pc,          \* position of each task in its handler
    req,         \* post_report: the report argument
    now,         \* get_stats: let now
    recent,      \* get_stats: let recent_reports
    resp,        \* the handler's return value: [status, msg, pools]
    acked,       \* history: bag of the reports whose post_report returned OK
    startAcked,  \* history: acked when the task's get_stats started
    atLock       \* history: reports when the task's get_stats took the lock

vars == <<reports, poisoned, lock, pc, req, now, recent, resp, acked, startAcked, atLock>>

EmptyPools == [P \in {} |-> 0]

NoResp == [status |-> 0, msg |-> "", pools |-> EmptyPools]

(* StatusCode and message of each return statement *)
OkResp == [status |-> 200, msg |-> "", pools |-> EmptyPools]

BadRequest(m) == [status |-> 400, msg |-> m, pools |-> EmptyPools]

InternalError(m) == [status |-> 500, msg |-> m, pools |-> EmptyPools]

StatsResponse(ps) == [status |-> 200, msg |-> "", pools |-> ps]

(* ------------------------------------------------------------------ *)
(* post_report: the validation checks, in source order                 *)
(* ------------------------------------------------------------------ *)
(* a timestamp check that lets 0 through *)
validate_nonnegative_timestamp(r) ==
    IF r.worker_id = "" THEN "worker_id cannot be empty"
    ELSE IF r.pool = "" THEN "pool cannot be empty"
    ELSE IF r.hashrate < 0 THEN "hashrate cannot be negative"
    ELSE IF r.timestamp < 0 THEN "timestamp must be positive"
    ELSE ""

(* the pool check placed before the worker_id check *)
validate_pool_first(r) ==
    IF r.pool = "" THEN "pool cannot be empty"
    ELSE IF r.worker_id = "" THEN "worker_id cannot be empty"
    ELSE IF r.hashrate < 0 THEN "hashrate cannot be negative"
    ELSE IF r.timestamp <= 0 THEN "timestamp must be positive"
    ELSE ""

(* a hashrate check that also rejects 0 *)
validate_positive_hashrate(r) ==
    IF r.worker_id = "" THEN "worker_id cannot be empty"
    ELSE IF r.pool = "" THEN "pool cannot be empty"
    ELSE IF r.hashrate <= 0 THEN "hashrate cannot be negative"
    ELSE IF r.timestamp <= 0 THEN "timestamp must be positive"
    ELSE ""

validate(r) ==
    IF r.worker_id = "" THEN "worker_id cannot be empty"
    ELSE IF r.pool = "" THEN "pool cannot be empty"
    ELSE IF r.hashrate < 0 THEN "hashrate cannot be negative"
    ELSE IF r.timestamp <= 0 THEN "timestamp must be positive"
    ELSE ""

(* a push that writes over the last element of a non-empty vector *)
push_overwrite(s, r) == IF s = <<>> THEN <<r>> ELSE [s EXCEPT ![Len(s)] = r]

(* reports.push(report) *)
push(s, r) == Append(s, r)

(* ------------------------------------------------------------------ *)
(* get_stats: the pure part                                            *)
(* ------------------------------------------------------------------ *)
(* a window one second short *)
five_minutes_ago_short(n) == n - (WINDOW - 1)

(* line 89: let five_minutes_ago = now - 300 *)
five_minutes_ago(n) == n - WINDOW

(* a filter that also keeps timestamp = five_minutes_ago *)
RECURSIVE recent_reports_inclusive(_, _)
recent_reports_inclusive(s, lb) ==
    IF s = <<>> THEN <<>>
    ELSE IF Head(s).timestamp >= lb
         THEN <<Head(s)>> \o recent_reports_inclusive(Tail(s), lb)
         ELSE recent_reports_inclusive(Tail(s), lb)

(* reports.iter().filter(|r| r.timestamp > five_minutes_ago).cloned().collect() *)
RECURSIVE recent_reports(_, _)
recent_reports(s, lb) ==
    IF s = <<>> THEN <<>>
    ELSE IF Head(s).timestamp > lb
         THEN <<Head(s)>> \o recent_reports(Tail(s), lb)
         ELSE recent_reports(Tail(s), lb)

(* a grouping that starts the map afresh at the first report of a pool *)
RECURSIVE pool_reports_restart(_, _)
pool_reports_restart(s, m) ==
    IF s = <<>> THEN m
    ELSE LET r == Head(s)
             m2 == IF r.pool \in DOMAIN m
                   THEN [m EXCEPT ![r.pool] = Append(@, r)]
                   ELSE (r.pool :> <<r>>)
         IN pool_reports_restart(Tail(s), m2)

(* a grouping that pushes each report onto the group of every pool *)
RECURSIVE pool_reports_shared(_, _)
pool_reports_shared(s, m) ==
    IF s = <<>> THEN m
    ELSE LET r == Head(s)
             m2 == [Q \in DOMAIN m \cup {r.pool} |->
                       Append(IF Q \in DOMAIN m THEN m[Q] ELSE <<>>, r)]
         IN pool_reports_shared(Tail(s), m2)

(* for report in &recent_reports { pool_reports.entry(pool).or_insert_with(Vec::new).push(report) } *)
RECURSIVE pool_reports(_, _)
pool_reports(s, m) ==
    IF s = <<>> THEN m
    ELSE LET r == Head(s)
             m2 == IF r.pool \in DOMAIN m
                   THEN [m EXCEPT ![r.pool] = Append(@, r)]
                   ELSE m @@ (r.pool :> <<r>>)
         IN pool_reports(Tail(s), m2)

(* for report in &reports { unique_workers.insert(&report.worker_id) } *)
RECURSIVE unique_workers(_)
unique_workers(rs) ==
    IF rs = <<>> THEN {} ELSE {Head(rs).worker_id} \cup unique_workers(Tail(rs))

(* reports.iter().map(|r| r.hashrate).sum() *)
RECURSIVE total_hashrate(_)
total_hashrate(rs) ==
    IF rs = <<>> THEN 0 ELSE Head(rs).hashrate + total_hashrate(Tail(rs))

(* reports.iter().map(|r| r.temperature as f64).sum() *)
RECURSIVE total_temp(_)
total_temp(rs) ==
    IF rs = <<>> THEN 0 ELSE Head(rs).temperature + total_temp(Tail(rs))

(* rounding that takes half-way cases up instead of away from zero *)
round_tenths_half_up(num, den) == (20 * num + den) \div (2 * den)

(* (x * 10.0).round() for x = num / den with den > 0: f64::round rounds   *)
(* half-way cases away from zero.  The result counts tenths.              *)
round_tenths(num, den) ==
    IF num >= 0 THEN (20 * num + den) \div (2 * den)
    ELSE -((20 * (-num) + den) \div (2 * den))

(* workers counted per report instead of per distinct worker_id *)
PoolStats_per_report(rs) ==
    LET report_count == Len(rs)
    IN [workers |-> report_count,
        avg_hashrate |-> round_tenths(total_hashrate(rs), HashrateScale * report_count),
        avg_temp |-> round_tenths(total_temp(rs), report_count)]

(* PoolStats { workers, avg_hashrate, avg_temp } of one pool's reports *)
PoolStats(rs) ==
    LET report_count == Len(rs)
    IN [workers |-> Cardinality(unique_workers(rs)),
        avg_hashrate |-> round_tenths(total_hashrate(rs), HashrateScale * report_count),
        avg_temp |-> round_tenths(total_temp(rs), report_count)]

(* the orders in which `for (pool_name, reports) in pool_reports` can     *)
(* visit the groups: the iteration order of a HashMap is unspecified      *)
IterOrders(groups) ==
    {ord \in [1..Cardinality(DOMAIN groups) -> DOMAIN groups] :
        \A i, j \in DOMAIN ord : i # j => ord[i] # ord[j]}

(* the loop with unique_workers declared once, in front of it *)
RECURSIVE pool_stats_loop_hoisted(_, _, _)
pool_stats_loop_hoisted(ord, groups, m) ==
    IF ord = <<>> THEN m
    ELSE LET P == Head(ord)
             seen == UNION {unique_workers(groups[Q]) : Q \in DOMAIN m}
             st == [PoolStats(groups[P]) EXCEPT
                      !.workers = Cardinality(seen \cup unique_workers(groups[P]))]
         IN IF groups[P] = <<>>
            THEN pool_stats_loop_hoisted(Tail(ord), groups, m)
            ELSE pool_stats_loop_hoisted(Tail(ord), groups,
                     (P :> st) @@ m)

(* lines 118-145: the loop over the groups in the order ord; an empty     *)
(* group is skipped, the others insert one PoolStats under their pool     *)
RECURSIVE pool_stats_loop(_, _, _)
pool_stats_loop(ord, groups, m) ==
    IF ord = <<>> THEN m
    ELSE LET P == Head(ord)
         IN IF groups[P] = <<>>
            THEN pool_stats_loop(Tail(ord), groups, m)
            ELSE pool_stats_loop(Tail(ord), groups, (P :> PoolStats(groups[P])) @@ m)

(* lines 105-145: group, then run the loop in one of its orders *)
pool_stats(rr) ==
    LET groups == pool_reports(rr, EmptyPools)
    IN pool_stats_loop(CHOOSE ord \in IterOrders(groups) : TRUE, groups, EmptyPools)

(* ------------------------------------------------------------------ *)
(* State machine                                                        *)
(* ------------------------------------------------------------------ *)
Init ==
    /\ reports = <<>>
    /\ poisoned = FALSE
    /\ lock = 0
    /\ pc = [p \in Procs |-> "idle"]
    /\ req = [p \in Procs |-> NoReport]
    /\ now = [p \in Procs |-> 0]
    /\ recent = [p \in Procs |-> <<>>]
    /\ resp = [p \in Procs |-> NoResp]
    /\ acked = EmptyBag
    /\ startAcked = [p \in Procs |-> EmptyBag]
    /\ atLock = [p \in Procs |-> <<>>]

(* reports accepted or about to be pushed *)
Pending == Len(reports) + Cardinality({q \in Procs : pc[q] \in {"s_lock", "s_push"}})

(* A POST /report request arrives: post_report is called with report r.  *)
(* a handler that looks at the mutex before it validates the body *)
post_report_validate_lock_first(p, r, cap) ==
    /\ pc[p] = "idle"
    /\ Pending < cap
    /\ req' = [req EXCEPT ![p] = r]
    /\ IF poisoned
       THEN /\ resp' = [resp EXCEPT ![p] = InternalError("Failed to store report")]
            /\ pc' = [pc EXCEPT ![p] = "s_done"]
       ELSE IF validate(r) # ""
       THEN /\ resp' = [resp EXCEPT ![p] = BadRequest(validate(r))]
            /\ pc' = [pc EXCEPT ![p] = "s_done"]
       ELSE /\ pc' = [pc EXCEPT ![p] = "s_lock"]
            /\ UNCHANGED resp
    /\ UNCHANGED <<reports, poisoned, lock, now, recent, acked, startAcked, atLock>>

(* lines 58-73: the four checks; the first that fails returns its error. *)
post_report_validate(p, r, cap) ==
    /\ pc[p] = "idle"
    /\ Pending < cap
    /\ req' = [req EXCEPT ![p] = r]
    /\ IF validate(r) # ""
       THEN /\ resp' = [resp EXCEPT ![p] = BadRequest(validate(r))]
            /\ pc' = [pc EXCEPT ![p] = "s_done"]
       ELSE /\ pc' = [pc EXCEPT ![p] = "s_lock"]
            /\ UNCHANGED resp
    /\ UNCHANGED <<reports, poisoned, lock, now, recent, acked, startAcked, atLock>>

(* a lock that does not wait for its holder *)
LockFree_no_wait == TRUE

(* Mutex::lock blocks until the mutex is free *)
LockFree == lock = 0

(* state.reports.lock().unwrap(): a poisoned mutex ends the task *)
post_report_lock_unwrap(p) ==
    /\ pc[p] = "s_lock"
    /\ LockFree
    /\ IF poisoned
       THEN /\ pc' = [pc EXCEPT ![p] = "idle"]
            /\ req' = [req EXCEPT ![p] = NoReport]
            /\ UNCHANGED <<lock, resp>>
       ELSE /\ lock' = p
            /\ pc' = [pc EXCEPT ![p] = "s_push"]
            /\ UNCHANGED <<resp, req>>
    /\ UNCHANGED <<reports, poisoned, now, recent, acked, startAcked, atLock>>

(* line 76: state.reports.lock(); Err(_) when the mutex is poisoned *)
post_report_lock(p) ==
    /\ pc[p] = "s_lock"
    /\ LockFree
    /\ IF poisoned
       THEN /\ resp' = [resp EXCEPT ![p] = InternalError("Failed to store report")]
            /\ pc' = [pc EXCEPT ![p] = "s_done"]
            /\ UNCHANGED lock
       ELSE /\ lock' = p
            /\ pc' = [pc EXCEPT ![p] = "s_push"]
            /\ UNCHANGED resp
    /\ UNCHANGED <<reports, poisoned, req, now, recent, acked, startAcked, atLock>>

(* a push whose guard is never dropped: std::mem::forget(reports) *)
post_report_push_keeps_guard(p) ==
    /\ pc[p] = "s_push"
    /\ reports' = push(reports, req[p])
    /\ resp' = [resp EXCEPT ![p] = OkResp]
    /\ pc' = [pc EXCEPT ![p] = "s_done"]
    /\ UNCHANGED <<lock, poisoned, req, now, recent, acked, startAcked, atLock>>

(* lines 78-80: reports.push(report); Ok(StatusCode::OK); the guard is    *)
(* dropped at the end of the arm                                         *)
post_report_push(p) ==
    /\ pc[p] = "s_push"
    /\ reports' = push(reports, req[p])
    /\ lock' = 0
    /\ resp' = [resp EXCEPT ![p] = OkResp]
    /\ pc' = [pc EXCEPT ![p] = "s_done"]
    /\ UNCHANGED <<poisoned, req, now, recent, acked, startAcked, atLock>>

(* post_report returns; the task is free for the next request *)
post_report_return(p) ==
    /\ pc[p] = "s_done"
    /\ acked' = IF resp[p].status = 200 THEN acked (+) SetToBag({req[p]}) ELSE acked
    /\ pc' = [pc EXCEPT ![p] = "idle"]
    /\ req' = [req EXCEPT ![p] = NoReport]
    /\ resp' = [resp EXCEPT ![p] = NoResp]
    /\ UNCHANGED <<reports, poisoned, lock, now, recent, startAcked, atLock>>

(* A GET /stats request arrives; lines 88-89: let now = Utc::now().timestamp() *)
get_stats_begin(p, n) ==
    /\ pc[p] = "idle"
    /\ pc' = [pc EXCEPT ![p] = "q_lock"]
    /\ now' = [now EXCEPT ![p] = n]
    /\ startAcked' = [startAcked EXCEPT ![p] = acked]
    /\ UNCHANGED <<reports, poisoned, lock, req, recent, resp, acked, atLock>>

(* line 92: state.reports.lock(); lines 100-102 when the mutex is poisoned *)
get_stats_lock(p) ==
    /\ pc[p] = "q_lock"
    /\ LockFree
    /\ IF poisoned
       THEN /\ resp' = [resp EXCEPT ![p] = InternalError("Failed to access reports")]
            /\ pc' = [pc EXCEPT ![p] = "q_done"]
            /\ UNCHANGED <<lock, atLock>>
       ELSE /\ lock' = p
            /\ atLock' = [atLock EXCEPT ![p] = reports]
            /\ pc' = [pc EXCEPT ![p] = "q_copy"]
            /\ UNCHANGED resp
    /\ UNCHANGED <<reports, poisoned, req, now, recent, acked, startAcked>>

(* a query that moves the vector out of the mutex: std::mem::take *)
get_stats_copy_take(p) ==
    /\ pc[p] = "q_copy"
    /\ recent' = [recent EXCEPT ![p] = recent_reports(reports, five_minutes_ago(now[p]))]
    /\ reports' = <<>>
    /\ lock' = 0
    /\ pc' = [pc EXCEPT ![p] = "q_agg"]
    /\ UNCHANGED <<poisoned, req, now, resp, acked, startAcked, atLock>>

(* a query that prunes the vector to the window: reports.retain(..) *)
get_stats_copy_retain(p) ==
    /\ pc[p] = "q_copy"
    /\ recent' = [recent EXCEPT ![p] = recent_reports(reports, five_minutes_ago(now[p]))]
    /\ reports' = recent_reports(reports, five_minutes_ago(now[p]))
    /\ lock' = 0
    /\ pc' = [pc EXCEPT ![p] = "q_agg"]
    /\ UNCHANGED <<poisoned, req, now, resp, acked, startAcked, atLock>>

(* lines 94-99: the filtered copy, made while the guard is held; the     *)
(* guard is dropped at the end of the Ok arm                             *)
get_stats_copy(p) ==
    /\ pc[p] = "q_copy"
    /\ recent' = [recent EXCEPT ![p] = recent_reports(reports, five_minutes_ago(now[p]))]
    /\ lock' = 0
    /\ pc' = [pc EXCEPT ![p] = "q_agg"]
    /\ UNCHANGED <<reports, poisoned, req, now, resp, acked, startAcked, atLock>>

(* lines 105-147: group, compute, Ok(Json(StatsResponse { pools })) *)
get_stats_aggregate(p) ==
    /\ pc[p] = "q_agg"
    /\ LET groups == pool_reports(recent[p], EmptyPools)
       IN \E ord \in IterOrders(groups) :
              resp' = [resp EXCEPT ![p] = StatsResponse(pool_stats_loop(ord, groups, EmptyPools))]
    /\ pc' = [pc EXCEPT ![p] = "q_done"]
    /\ UNCHANGED <<reports, poisoned, lock, req, now, recent, acked, startAcked, atLock>>

(* get_stats returns; the task is free for the next request *)
get_stats_return(p) ==
    /\ pc[p] = "q_done"
    /\ pc' = [pc EXCEPT ![p] = "idle"]
    /\ now' = [now EXCEPT ![p] = 0]
    /\ recent' = [recent EXCEPT ![p] = <<>>]
    /\ resp' = [resp EXCEPT ![p] = NoResp]
    /\ startAcked' = [startAcked EXCEPT ![p] = EmptyBag]
    /\ atLock' = [atLock EXCEPT ![p] = <<>>]
    /\ UNCHANGED <<reports, poisoned, lock, req, acked>>

(* A task panics while it holds the guard (the only way a std Mutex      *)
(* becomes poisoned): the guard's drop sets the poison flag and frees    *)
(* the mutex, the task ends without a response, the process goes on.     *)
task_panic(p) ==
    /\ pc[p] \in {"s_push", "q_copy"}
    /\ lock = p
    /\ poisoned' = TRUE
    /\ lock' = 0
    /\ pc' = [pc EXCEPT ![p] = "idle"]
    /\ req' = [req EXCEPT ![p] = NoReport]
    /\ now' = [now EXCEPT ![p] = 0]
    /\ recent' = [recent EXCEPT ![p] = <<>>]
    /\ resp' = [resp EXCEPT ![p] = NoResp]
    /\ startAcked' = [startAcked EXCEPT ![p] = EmptyBag]
    /\ atLock' = [atLock EXCEPT ![p] = <<>>]
    /\ UNCHANGED <<reports, acked>>

(* the steps of a handler that is already running *)
Step(p) ==
    \/ post_report_lock(p)
    \/ post_report_push(p)
    \/ post_report_return(p)
    \/ get_stats_lock(p)
    \/ get_stats_copy(p)
    \/ get_stats_aggregate(p)
    \/ get_stats_return(p)
    \/ task_panic(p)

(* Concurrent requests, one task per request *)
Next ==
    \E p \in Procs :
        \/ \E r \in ConcReports : post_report_validate(p, r, MaxReports)
        \/ \E n \in Nows : get_stats_begin(p, n)
        \/ Step(p)

Spec == Init /\ [][Next]_vars

(* Request bodies and clock readings for the progress check: the control  *)
(* flow of a handler depends on the body only through validate            *)
LiveReports == {Report("w1", "us-east", 1000, 60, 301), Report("w1", "", 1000, 60, 301)}
LiveNows == {301}

(* The steps of a handler that does not panic *)
Running(p) ==
    \/ post_report_lock(p)
    \/ post_report_push(p)
    \/ post_report_return(p)
    \/ get_stats_lock(p)
    \/ get_stats_copy(p)
    \/ get_stats_aggregate(p)
    \/ get_stats_return(p)

(* Concurrent requests without a panic under the guard *)
NextLive ==
    \E p \in Procs :
        \/ \E r \in LiveReports : post_report_validate(p, r, MaxReports)
        \/ \E n \in LiveNows : get_stats_begin(p, n)
        \/ Running(p)

(* Fair scheduling: a task that can run does run, and a task waiting for  *)
(* the mutex gets it if it is free again and again                        *)
Fairness ==
    \A p \in Procs :
        /\ WF_vars(Running(p))
        /\ SF_vars(post_report_lock(p))
        /\ SF_vars(get_stats_lock(p))

SpecLive == Init /\ [][NextLive]_vars /\ Fairness

(* One request at a time, reports with every combination of field validity *)
NextValidate ==
    \/ \E r \in ValReports : post_report_validate(1, r, MaxValReports)
    \/ \E n \in Nows : get_stats_begin(1, n)
    \/ Step(1)

SpecValidate == Init /\ [][NextValidate]_vars

(* One request at a time, reports chosen to exercise the aggregation *)
NextStats ==
    \/ \E r \in StatsReports : post_report_validate(1, r, MaxStatsReports)
    \/ \E n \in Nows : get_stats_begin(1, n)
    \/ Step(1)

SpecStats == Init /\ [][NextStats]_vars

(* ------------------------------------------------------------------ *)
(* Vocabulary of the claims                                            *)
(* ------------------------------------------------------------------ *)
InvalidWorkerId == "worker_id cannot be empty"

InvalidPool == "pool cannot be empty"

InvalidHashrate == "hashrate cannot be negative"

InvalidTimestamp == "timestamp must be positive"

BadWorkerId(r) == r.worker_id = ""

BadPool(r) == r.pool = ""

BadHashrate(r) == r.hashrate < 0

BadTimestamp(r) == r.timestamp <= 0

ValidReport(r) == ~BadWorkerId(r) /\ ~BadPool(r) /\ ~BadHashrate(r) /\ ~BadTimestamp(r)

InvalidFields(r) ==
    {f \in {"worker_id", "pool", "hashrate", "timestamp"} :
        \/ f = "worker_id" /\ BadWorkerId(r)
        \/ f = "pool" /\ BadPool(r)
        \/ f = "hashrate" /\ BadHashrate(r)
        \/ f = "timestamp" /\ BadTimestamp(r)}

ErrorOf(f) ==
    CASE f = "worker_id" -> InvalidWorkerId
      [] f = "pool" -> InvalidPool
      [] f = "hashrate" -> InvalidHashrate
      [] f = "timestamp" -> InvalidTimestamp

(* post_report of task p has produced its return value *)
SubmitDone(p) == pc[p] = "s_done"

(* get_stats of task p has produced its return value *)
QueryDone(p) == pc[p] = "q_done"

(* C1: submit checks worker_id, pool, hashrate, timestamp in that order   *)
(* and returns the error of the first check that fails; a report with     *)
(* exactly one invalid field gets the error of that field, whatever the   *)
(* other fields hold.                                                     *)
C1_FirstFailingCheck ==
    \A p \in Procs :
        SubmitDone(p) =>
            LET r == req[p] IN
            /\ BadWorkerId(r) => resp[p] = BadRequest(InvalidWorkerId)
            /\ ~BadWorkerId(r) /\ BadPool(r) => resp[p] = BadRequest(InvalidPool)
            /\ ~BadWorkerId(r) /\ ~BadPool(r) /\ BadHashrate(r)
                   => resp[p] = BadRequest(InvalidHashrate)
            /\ ~BadWorkerId(r) /\ ~BadPool(r) /\ ~BadHashrate(r) /\ BadTimestamp(r)
                   => resp[p] = BadRequest(InvalidTimestamp)
            /\ \A f \in InvalidFields(r) :
                   InvalidFields(r) = {f} => resp[p] = BadRequest(ErrorOf(f))

(* a report whose pool, hashrate and timestamp are all invalid was        *)
(* answered with the pool error                                           *)
C1_Witness ==
    \E p \in Procs :
        /\ SubmitDone(p)
        /\ InvalidFields(req[p]) = {"pool", "hashrate", "timestamp"}
        /\ resp[p] = BadRequest(InvalidPool)

(* C2: while the mutex is not poisoned, submit succeeds for every report  *)
(* with non-empty worker_id and pool, hashrate >= 0 and timestamp > 0,    *)
(* whatever its temperature; such a report is never rejected by a check.  *)
C2_ValidReportAccepted ==
    \A p \in Procs :
        SubmitDone(p) /\ ValidReport(req[p]) =>
            /\ resp[p].status # 400
            /\ ~poisoned => resp[p] = OkResp

(* a report with hashrate 0 and a negative temperature was accepted *)
C2_Witness ==
    \E p \in Procs :
        /\ SubmitDone(p)
        /\ req[p].hashrate = 0
        /\ req[p].temperature < 0
        /\ resp[p] = OkResp
        /\ ~poisoned

(* ------------------------------------------------------------------ *)
(* What query_stats(now) is to return, stated over the stored sequence  *)
(* ------------------------------------------------------------------ *)
InWindow(r, n) == r.timestamp > n - 300

(* positions of the stored sequence s that are inside the window of n *)
WindowIdx(s, n) == {i \in DOMAIN s : InWindow(s[i], n)}

(* positions of pool P inside the window *)
PoolIdx(s, n, P) == {i \in WindowIdx(s, n) : s[i].pool = P}

RECURSIVE SumHashrate(_, _)
SumHashrate(s, I) ==
    IF I = {} THEN 0
    ELSE LET i == CHOOSE j \in I : TRUE IN s[i].hashrate + SumHashrate(s, I \ {i})

RECURSIVE SumTemperature(_, _)
SumTemperature(s, I) ==
    IF I = {} THEN 0
    ELSE LET i == CHOOSE j \in I : TRUE IN s[i].temperature + SumTemperature(s, I \ {i})

Abs(x) == IF x < 0 THEN -x ELSE x

(* k tenths is num / den rounded to one decimal place, half-way cases     *)
(* away from zero: k / 10 is within 0.05 of num / den, and at exactly     *)
(* 0.05 it is the one farther from zero.                                  *)
IsRoundedTenths(k, num, den) ==
    /\ 2 * Abs(10 * num - k * den) <= den
    /\ 2 * Abs(10 * num - k * den) = den => Abs(k * den) > Abs(10 * num)

(* get_stats of task p has returned a mapping *)
QueryOk(p) == QueryDone(p) /\ resp[p].status = 200

(* C4: query_stats(now) counts a stored report iff its timestamp is       *)
(* greater than now - 300: timestamp = now - 300 is left out, timestamp = *)
(* now - 299 is counted, and a timestamp after now is counted.            *)
C4_WindowBoundary ==
    \A p \in Procs :
        pc[p] \in {"q_agg", "q_done"} /\ (QueryDone(p) => QueryOk(p)) =>
            LET s == atLock[p]
                n == now[p]
                Counted(r) == \E j \in DOMAIN recent[p] : recent[p][j] = r
            IN /\ \A i \in DOMAIN s : Counted(s[i]) <=> s[i].timestamp > n - 300
               /\ \A i \in DOMAIN s : s[i].timestamp = n - 300 => ~Counted(s[i])
               /\ \A i \in DOMAIN s : s[i].timestamp = n - 299 => Counted(s[i])
               /\ \A i \in DOMAIN s : s[i].timestamp > n => Counted(s[i])
               /\ Len(recent[p]) = Cardinality(WindowIdx(s, n))

(* one query met a report at now - 300, one at now - 299 and one after now *)
C4_Witness ==
    \E p \in Procs :
        /\ QueryOk(p)
        /\ \E i \in DOMAIN atLock[p] : atLock[p][i].timestamp = now[p] - 300
        /\ \E i \in DOMAIN atLock[p] : atLock[p][i].timestamp = now[p] - 299
        /\ \E i \in DOMAIN atLock[p] : atLock[p][i].timestamp > now[p]
        /\ Len(recent[p]) = 2

(* C5: the keys of the mapping returned by query_stats(now) are exactly   *)
(* the pools with at least one stored report inside the window; a pool    *)
(* whose reports are all outside is absent; an empty store or an empty    *)
(* window gives a successful empty mapping.                               *)
C5_KeysAreWindowPools ==
    \A p \in Procs :
        /\ QueryOk(p) =>
              LET s == atLock[p]
                  n == now[p]
              IN /\ DOMAIN resp[p].pools = {s[i].pool : i \in WindowIdx(s, n)}
                 /\ \A P \in DOMAIN resp[p].pools : resp[p].pools[P].workers >= 1
                 /\ WindowIdx(s, n) = {} => resp[p] = StatsResponse(EmptyPools)
        /\ QueryDone(p) /\ ~poisoned => resp[p].status = 200

(* a query over a store that holds one pool inside the window and one     *)
(* pool only outside it returned the first pool alone                     *)
C5_Witness ==
    \E p \in Procs :
        /\ QueryOk(p)
        /\ DOMAIN resp[p].pools = {"eu-west"}
        /\ \E i \in DOMAIN atLock[p] : atLock[p][i].pool = "us-east"

(* C6: workers of a pool is the number of distinct worker_id values among *)
(* the pool's reports inside the window: the same worker reporting twice  *)
(* to a pool counts once, a worker of two pools counts once in each.      *)
C6_DistinctWorkers ==
    \A p \in Procs :
        QueryOk(p) =>
            \A P \in DOMAIN resp[p].pools :
                resp[p].pools[P].workers =
                    Cardinality({atLock[p][i].worker_id : i \in PoolIdx(atLock[p], now[p], P)})

(* worker w1 has two reports inside the window in us-east and one in      *)
(* eu-west, and each pool counts one worker                               *)
C6_Witness ==
    \E p \in Procs :
        /\ QueryOk(p)
        /\ Cardinality(PoolIdx(atLock[p], now[p], "us-east")) = 2
        /\ Cardinality(PoolIdx(atLock[p], now[p], "eu-west")) = 1
        /\ \A i \in DOMAIN atLock[p] : atLock[p][i].worker_id = "w1"
        /\ resp[p].pools["us-east"].workers = 1
        /\ resp[p].pools["eu-west"].workers = 1

(* the three reports of the worked example: hashrates 10.0, 20.0, 30.3,   *)
(* temperatures 60, 70, 80, one pool, three workers, timestamp 301        *)
ExampleReports ==
    { Report("w1", "us-east", 1000, 60, 301),
      Report("w2", "us-east", 2000, 70, 301),
      Report("w3", "us-east", 3030, 80, 301) }

IsExample(s) == Len(s) = 3 /\ {s[i] : i \in DOMAIN s} = ExampleReports

C7_WitnessHalfWay ==
    \E p \in Procs :
        /\ QueryOk(p)
        /\ Cardinality(PoolIdx(atLock[p], now[p], "eu-west")) = 4
        /\ SumTemperature(atLock[p], PoolIdx(atLock[p], now[p], "eu-west")) = -1
        /\ resp[p].pools["eu-west"].avg_temp = -3
        /\ resp[p].pools["eu-west"].avg_hashrate = 2

(* the entry of pool P in the result of query_stats(n) over the store s *)
Entry(s, n, P) ==
    LET ps == pool_stats(recent_reports(s, five_minutes_ago(n)))
    IN IF P \in DOMAIN ps THEN <<ps[P]>> ELSE <<>>

AllPools == {r.pool : r \in StatsReports \cup ConcReports \cup ValReports}

(* C8: a submit to one pool leaves the entry of every other pool, in the  *)
(* result of query_stats(now) for every now, as it was before the submit. *)
C8_PoolIsolation ==
    [][\A p \in Procs :
          pc[p] = "s_push" /\ pc'[p] = "s_done" =>
              \A n \in Nows : \A P \in AllPools \ {req[p].pool} :
                  Entry(reports', n, P) = Entry(reports, n, P)]_vars

(* a report was stored while the store held a report of another pool      *)
(* inside the window                                                      *)
C8_Witness ==
    \E p \in Procs :
        /\ SubmitDone(p) /\ resp[p] = OkResp
        /\ reports # <<>> /\ reports[Len(reports)] = req[p]
        /\ \E i \in DOMAIN reports : \E n \in Nows :
               reports[i].pool # req[p].pool /\ InWindow(reports[i], n)

(* ------------------------------------------------------------------ *)
(* Concurrent requests                                                  *)
(* ------------------------------------------------------------------ *)
(* how many times report r occurs in the sequence s *)
Count(s, r) == Cardinality({i \in DOMAIN s : s[i] = r})

(* C3: once submit(r) has returned success, every query_stats(now) that   *)
(* starts afterwards with r.timestamp <= now < r.timestamp + 300 and      *)
(* returns a mapping has r.pool in it with workers >= 1, whatever other   *)
(* submits and queries ran in between.                                    *)
C3_AcceptedReportVisible ==
    \A q \in Procs :
        QueryOk(q) =>
            \A r \in BagToSet(startAcked[q]) :
                r.timestamp <= now[q] /\ now[q] < r.timestamp + 300 =>
                    /\ r.pool \in DOMAIN resp[q].pools
                    /\ resp[q].pools[r.pool].workers >= 1

(* a query that started after an accepted report and after a later        *)
(* report of another pool returned the first report's pool                *)
C3_Witness ==
    \E q \in Procs :
        /\ QueryOk(q)
        /\ Len(atLock[q]) = 2
        /\ atLock[q][1] \in BagToSet(startAcked[q])
        /\ atLock[q][1].pool # atLock[q][2].pool
        /\ atLock[q][1].timestamp <= now[q] /\ now[q] < atLock[q][1].timestamp + 300
        /\ atLock[q][1].pool \in DOMAIN resp[q].pools

(* the submits that have stored their report and not yet returned *)
Returning(r) == {p \in Procs : SubmitDone(p) /\ resp[p] = OkResp /\ req[p] = r}

(* C9: no concurrent submit is lost: in every interleaving the store      *)
(* holds each report once per successful submit of it and nothing else,   *)
(* and a query that runs after the submits have returned reads exactly    *)
(* those of them that its window covers, each in its pool.                *)
C9_NoLostSubmit ==
    /\ \A i \in DOMAIN reports : reports[i] \in ConcReports
    /\ \A r \in ConcReports :
           Count(reports, r) = CopiesIn(r, acked) + Cardinality(Returning(r))
    /\ \A q \in Procs :
           /\ QueryOk(q)
           /\ startAcked[q] = acked
           /\ \A p \in Procs \ {q} : pc[p] = "idle"
           => /\ \A r \in ConcReports :
                     Count(recent[q], r) =
                         IF InWindow(r, now[q]) THEN CopiesIn(r, acked) ELSE 0
              /\ Len(recent[q]) = Cardinality(WindowIdx(reports, now[q]))
              /\ DOMAIN resp[q].pools =
                     {r.pool : r \in {x \in BagToSet(acked) : InWindow(x, now[q])}}

(* two submits of different reports ran at the same time and both are     *)
(* about to return success                                                *)
C9_Witness ==
    \E p, q \in Procs :
        /\ p # q
        /\ SubmitDone(p) /\ resp[p] = OkResp
        /\ SubmitDone(q) /\ resp[q] = OkResp
        /\ req[p] # req[q]
        /\ Count(reports, req[p]) = 1 /\ Count(reports, req[q]) = 1

(* a query that started after two submits had returned read both reports *)
C9_WitnessFinalQuery ==
    \E q \in Procs :
        /\ QueryOk(q)
        /\ startAcked[q] = acked
        /\ \A p \in Procs \ {q} : pc[p] = "idle"
        /\ BagCardinality(acked) = 2
        /\ Len(recent[q]) = 2
        /\ Cardinality(DOMAIN resp[q].pools) = 2

(* s is a prefix of t *)
IsPrefix(s, t) == Len(s) <= Len(t) /\ \A i \in DOMAIN s : s[i] = t[i]

(* C10: a query that runs concurrently with submits computes its result   *)
(* from the store as it was at one instant between the query's start and  *)
(* its return, the instant it took the lock: it reads exactly the reports *)
(* whose appends had completed by then that its window covers, each with  *)
(* all five fields as submitted.                                          *)
C10_ConsistentSnapshot ==
    \A q \in Procs :
        pc[q] \in {"q_agg", "q_done"} /\ (QueryDone(q) => QueryOk(q)) =>
            /\ recent[q] = SelectSeq(atLock[q], LAMBDA r : InWindow(r, now[q]))
            /\ \A j \in DOMAIN recent[q] :
                   recent[q][j] \in ConcReports /\ ValidReport(recent[q][j])
            /\ \A r \in BagToSet(startAcked[q]) :
                   Count(atLock[q], r) >= CopiesIn(r, startAcked[q])
            /\ IsPrefix(atLock[q], reports)
            /\ QueryOk(q) =>
                   resp[q].pools = pool_stats(SelectSeq(atLock[q], LAMBDA r : InWindow(r, now[q])))

(* a submit stored its report between the instant a query took the lock   *)
(* and the query's return, and the query's copy does not hold it          *)
C10_Witness ==
    \E q \in Procs :
        /\ QueryOk(q)
        /\ Len(atLock[q]) = 1
        /\ Len(reports) = 2
        /\ InWindow(reports[2], now[q])
        /\ Len(recent[q]) = 1

(* ------------------------------------------------------------------ *)
(* Faults, frames and progress                                          *)
(* ------------------------------------------------------------------ *)
(* the typed failure of a poisoned mutex *)
StorageUnavailable(x) == x.status = 500 /\ x.pools = EmptyPools

(* the results a handler can return *)
TypedResult(x) ==
    \/ x.status = 200
    \/ x.status = 400 /\ x.msg \in {InvalidWorkerId, InvalidPool, InvalidHashrate, InvalidTimestamp}
    \/ StorageUnavailable(x)

(* C11: while the mutex is poisoned, submit of a valid report returns     *)
(* StorageUnavailable and stores nothing, and query_stats returns         *)
(* StorageUnavailable and no mapping; neither retries nor reports         *)
(* success, the poison stays, and the tasks go on answering requests      *)
(* with a typed result.                                                   *)
C11_PoisonedLockReported ==
    [][\A p \in Procs :
          /\ poisoned /\ pc[p] = "s_lock" /\ pc'[p] # "s_lock" =>
                 /\ pc'[p] = "s_done"
                 /\ StorageUnavailable(resp'[p])
                 /\ reports' = reports
                 /\ lock' = lock
          /\ poisoned /\ pc[p] = "q_lock" /\ pc'[p] # "q_lock" =>
                 /\ pc'[p] = "q_done"
                 /\ StorageUnavailable(resp'[p])
                 /\ reports' = reports
                 /\ lock' = lock
          /\ poisoned => poisoned'
          /\ pc'[p] \in {"s_done", "q_done"} => TypedResult(resp'[p])
          /\ poisoned /\ pc[p] \in {"s_done", "q_done"} /\ pc'[p] # pc[p] => pc'[p] = "idle"]_vars

(* with the mutex poisoned, a submit of a valid report and a query have   *)
(* both been answered StorageUnavailable and the report is not stored     *)
C11_Witness ==
    \E p, q \in Procs :
        /\ poisoned
        /\ SubmitDone(p) /\ ValidReport(req[p]) /\ StorageUnavailable(resp[p])
        /\ Count(reports, req[p]) = 0
        /\ QueryDone(q) /\ StorageUnavailable(resp[q])

(* C12: every report in the store has a non-empty worker_id, a non-empty  *)
(* pool, a hashrate of at least 0 and a timestamp above 0.                *)
C12_StoredReportsValid ==
    \A i \in DOMAIN reports :
        /\ reports[i].worker_id # ""
        /\ reports[i].pool # ""
        /\ reports[i].hashrate >= 0
        /\ reports[i].timestamp > 0

(* the store holds a report with the boundary hashrate 0 while a report   *)
(* whose only defect is the timestamp 0 has just been rejected            *)
C12_Witness ==
    /\ \E i \in DOMAIN reports : reports[i].hashrate = 0
    /\ SubmitDone(1)
    /\ InvalidFields(req[1]) = {"timestamp"}
    /\ req[1].timestamp = 0
    /\ resp[1].status = 400

(* C13: the store is append-only: on every step the vector before is a    *)
(* prefix of the vector after, the step that completes a successful       *)
(* submit(r) appends exactly r at the end, and no other step changes the  *)
(* vector; reports that have aged out of a query's window stay stored.    *)
C13_AppendOnly ==
    [][/\ IsPrefix(reports, reports')
       /\ \A p \in Procs :
              pc[p] = "s_push" /\ pc'[p] = "s_done" =>
                  /\ resp'[p] = OkResp
                  /\ reports' = Append(reports, req[p])
       /\ reports' # reports =>
              \E p \in Procs : pc[p] = "s_push" /\ pc'[p] = "s_done"]_vars

(* a query has answered while the store held a report outside its window  *)
(* in front of one inside it, and both are still stored in that order     *)
C13_Witness ==
    /\ QueryOk(1)
    /\ Len(reports) >= 2
    /\ ~InWindow(reports[1], now[1])
    /\ InWindow(reports[2], now[1])
    /\ atLock[1] = reports

(* C14: a submit that fails leaves the store as it was. An invalid report *)
(* is rejected with its validation error before the mutex is touched,     *)
(* also while the mutex is poisoned, and a submit that returns            *)
(* StorageUnavailable appends nothing.                                    *)
C14_FailedSubmitStoresNothing ==
    [][\A p \in Procs :
          /\ pc[p] = "idle" /\ pc'[p] \in {"s_lock", "s_done"} =>
                 /\ reports' = reports
                 /\ lock' = lock
                 /\ poisoned' = poisoned
                 /\ ~ValidReport(req'[p]) =>
                        /\ pc'[p] = "s_done"
                        /\ \E f \in InvalidFields(req'[p]) : resp'[p] = BadRequest(ErrorOf(f))
                        /\ resp'[p].status = 400
                 /\ ValidReport(req'[p]) => pc'[p] = "s_lock"
          /\ pc[p] # "s_done" /\ pc'[p] = "s_done" /\ resp'[p].status # 200 =>
                 reports' = reports
          /\ pc[p] = "s_lock" /\ pc'[p] = "s_done" =>
                 /\ StorageUnavailable(resp'[p])
                 /\ reports' = reports
          /\ pc[p] = "s_done" /\ pc'[p] = "idle" => reports' = reports]_vars

(* with the mutex poisoned and the store empty, an invalid report has     *)
(* been answered with its validation error                                *)
C14_Witness ==
    /\ poisoned
    /\ SubmitDone(1)
    /\ ~ValidReport(req[1])
    /\ resp[1].status = 400
    /\ reports = <<>>

(* C15: aggregation is deterministic: two queries that found the same     *)
(* stored vector and read the same clock value return equal mappings,     *)
(* whatever else the tasks did before and in whatever order each query    *)
(* visited its groups.                                                    *)
C15_Deterministic ==
    \A p, q \in Procs :
        QueryOk(p) /\ QueryOk(q) /\ atLock[p] = atLock[q] /\ now[p] = now[q] =>
            resp[p] = resp[q]

(* two tasks have each answered a query over the same two-pool vector at  *)
(* the same clock value                                                   *)
C15_Witness ==
    \E p, q \in Procs :
        /\ p # q
        /\ QueryOk(p) /\ QueryOk(q)
        /\ atLock[p] = atLock[q] /\ now[p] = now[q]
        /\ Cardinality(DOMAIN resp[p].pools) = 2

(* the task is inside get_stats *)
InQuery(p) == pc[p] \in {"q_lock", "q_copy", "q_agg", "q_done"}

(* C16: query_stats is read-only: no step of a query, answered with a     *)
(* mapping or with StorageUnavailable, changes the stored vector, and a   *)
(* query leaves nothing behind when it returns: its clock reading, its    *)
(* copy and its result are dropped, so the next query starts from the     *)
(* stored reports alone.                                                  *)
C16_QueryReadOnly ==
    [][\A p \in Procs :
          /\ (InQuery(p) \/ InQuery(p)') /\ pc'[p] # pc[p] =>
                 /\ reports' = reports
                 /\ acked' = acked
          /\ InQuery(p) /\ pc'[p] = "idle" =>
                 /\ recent'[p] = <<>>
                 /\ resp'[p] = NoResp
                 /\ now'[p] = 0
          /\ pc[p] = "idle" /\ InQuery(p)' =>
                 /\ recent[p] = <<>> /\ resp[p] = NoResp
                 /\ recent'[p] = <<>> /\ resp'[p] = NoResp]_vars

(* a query has answered with a non-empty mapping and the store still      *)
(* holds, in order, the reports the query found, some of them outside     *)
(* the window                                                             *)
C16_Witness ==
    /\ QueryOk(1)
    /\ resp[1].pools # EmptyPools
    /\ Len(recent[1]) < Len(reports)
    /\ reports = atLock[1]

(* a query has been answered StorageUnavailable over a non-empty store *)
C16_WitnessFailed ==
    /\ QueryDone(1)
    /\ StorageUnavailable(resp[1])
    /\ reports # <<>>

(* the mutex is held by exactly the tasks that are at the push or at the  *)
(* filtered copy, at most one at a time                                   *)
LockDiscipline ==
    /\ lock \in Procs \cup {0}
    /\ \A p \in Procs : lock = p <=> pc[p] \in {"s_push", "q_copy"}

====
